---- MODULE Spec2Model ----
(***************************************************************************)
(* Model of the FastAPI service of src/api.py: seven read-only endpoints   *)
(* that build a parameterized Snowflake query, fetch it through            *)
(* fetch_query_cached (functools.lru_cache(maxsize=512)) and shape the     *)
(* rows into a response.  The endpoints are plain `def` functions, so      *)
(* FastAPI runs them on worker threads: several requests are in flight at  *)
(* once and share the one process-wide cache.                              *)
(***************************************************************************)
EXTENDS Integers, Sequences, FiniteSets, TLC

(***************************************************************************)
(* Bounds of the model.                                                    *)
(***************************************************************************)
NumThreads == 2     \* worker threads serving requests concurrently
MaxCalls == 2       \* requests received in one behaviour
MaxRows == 2        \* rows a warehouse query returns at most

Threads == 1..NumThreads

(***************************************************************************)
(* Program constant: @lru_cache(maxsize=512) on fetch_query_cached.        *)
(* (CACHE_SIZE = 128 of api.py:13 is never read by the code.)              *)
(***************************************************************************)
maxsize == 512

(***************************************************************************)
(* Values.  A query-string parameter declared `str = Query(None)` is None  *)
(* when absent and a string (possibly empty) when present: None is <<>>,   *)
(* the string s is <<s>>.  Truthy is Python's `if x:` on such a value.     *)
(***************************************************************************)
None == <<>>
Some(s) == <<s>>
Val(x) == IF x = None THEN "" ELSE x[1]
Truthy(x) == x /= None /\ Val(x) /= ""

(***************************************************************************)
(* A request: the endpoint and its keyword arguments (arguments the        *)
(* endpoint does not take are None / 0).                                   *)
(***************************************************************************)
Req(op, county, date, start_date, end_date, category, metric, interval, limit) ==
    [op |-> op, county |-> county, date |-> date, start_date |-> start_date,
     end_date |-> end_date, category |-> category, metric |-> metric,
     interval |-> interval, limit |-> limit]

NoReq == Req("none", None, None, None, None, None, None, None, 0)

(***************************************************************************)
(* Query signatures: the (query, params) pair fetch_query_cached is called *)
(* with, which lru_cache uses as its key.  Query text is a string built by *)
(* concatenation as in the code; params is the tuple of bound values.      *)
(***************************************************************************)
Sig(query, params) == [query |-> query, params |-> params]

NoSig == Sig("", <<>>)

\* Variant of SigEq that compares keys by object identity: the strings and
\* tuples of two requests are never the same objects.
SigEq_identity(a, b) == FALSE

\* Equality of lru_cache keys: by value, query text and then parameters.
SigEq(a, b) == a.query = b.query /\ a.params = b.params

\* `if cond: query += text; params.append/extend(vals)`
AddIf(s, cond, text, vals) ==
    IF cond THEN Sig(s.query \o text, s.params \o vals) ELSE s

(***************************************************************************)
(* Responses.  kind "list": the rows; "record": the single row result[0];  *)
(* "error": the dict {"error": msg}; "exception": an exception left the    *)
(* endpoint (msg names it).                                                *)
(***************************************************************************)
Resp(kind, rows, msg) == [kind |-> kind, rows |-> rows, msg |-> msg]

NoResp == Resp("none", <<>>, "")
List(result) == Resp("list", result, "")
Record(row) == Resp("record", <<row>>, "")
Error(msg) == Resp("error", <<>>, msg)
Raised(e) == Resp("exception", <<>>, e)

(***************************************************************************)
(* Endpoint 1: get_demographics(county)                                    *)
(***************************************************************************)
get_demographics_sig(r) ==
    AddIf(Sig("SELECT * FROM CALIFORNIA_COVID_ANALYTICS.RAW.CA_COUNTY_DEMOGRAPHICS_2020 WHERE 1=1", <<>>),
          Truthy(r.county), " AND COUNTY_NAME = %s", <<Val(r.county)>>)

get_demographics_ret(r, result) ==
    IF result = <<>> THEN Error("No demographics found")
    ELSE IF ~Truthy(r.county) THEN List(result) ELSE Record(result[1])

(***************************************************************************)
(* Endpoint 2: get_cases(date, county)                                     *)
(***************************************************************************)
get_cases_sig(r) ==
    LET q0 == Sig("SELECT * FROM CALIFORNIA_COVID_ANALYTICS.ANALYTICS.CASES WHERE 1=1", <<>>)
        q1 == AddIf(q0, Truthy(r.county), " AND AREA = %s", <<Val(r.county)>>)
    IN  AddIf(q1, Truthy(r.date), " AND DATE = %s", <<Val(r.date)>>)

get_cases_ret(r, result) ==
    IF result = <<>> THEN Error("No cases found")
    ELSE IF ~(Truthy(r.county) /\ Truthy(r.date)) THEN List(result) ELSE Record(result[1])

(***************************************************************************)
(* Endpoint 3: get_cases_demographics(date, category)                      *)
(***************************************************************************)
get_cases_demographics_sig(r) ==
    LET q0 == Sig("SELECT * FROM CALIFORNIA_COVID_ANALYTICS.ANALYTICS.CASES_DEMOGRAPHICS WHERE 1=1", <<>>)
        q1 == AddIf(q0, Truthy(r.category), " AND DEMOGRAPHIC_CATEGORY = %s", <<Val(r.category)>>)
    IN  AddIf(q1, Truthy(r.date), " AND REPORT_DATE = %s", <<Val(r.date)>>)

get_cases_demographics_ret(r, result) ==
    IF result = <<>> THEN Error("No cases demographics found")
    ELSE IF ~(Truthy(r.category) /\ Truthy(r.date)) THEN List(result) ELSE Record(result[1])

(***************************************************************************)
(* Endpoint 4: get_hospitals(date, county)                                 *)
(***************************************************************************)
get_hospitals_sig(r) ==
    LET q0 == Sig("SELECT * FROM CALIFORNIA_COVID_ANALYTICS.ANALYTICS.HOSPITALS_BY_COUNTY WHERE 1=1", <<>>)
        q1 == AddIf(q0, Truthy(r.county), " AND COUNTY = %s", <<Val(r.county)>>)
    IN  AddIf(q1, Truthy(r.date), " AND TODAYS_DATE = %s", <<Val(r.date)>>)

get_hospitals_ret(r, result) ==
    IF result = <<>> THEN Error("No hospital data found")
    ELSE IF ~(Truthy(r.county) /\ Truthy(r.date)) THEN List(result) ELSE Record(result[1])

(***************************************************************************)
(* Endpoint 5: get_cases_demographics_view(county, date, start_date,       *)
(* end_date)                                                               *)
(***************************************************************************)
DateEq == " AND DATE = %s"
DateBetween == " AND DATE BETWEEN %s AND %s"

\* Variant of get_cases_demographics_view_sig that applies start_date and
\* end_date each on its own, as get_cases_summary_by_county does.
get_cases_demographics_view_sig_each(r) ==
    LET q0 == Sig("SELECT * FROM CALIFORNIA_COVID_ANALYTICS.ANALYTICS.CA_CASES_DEMOGRAPHICS_VIEW WHERE 1=1", <<>>)
        q1 == AddIf(q0, Truthy(r.county), " AND AREA = %s", <<Val(r.county)>>)
        q2 == AddIf(q1, Truthy(r.date), DateEq, <<Val(r.date)>>)
        q3 == AddIf(q2, Truthy(r.start_date), " AND DATE >= %s", <<Val(r.start_date)>>)
    IN  AddIf(q3, Truthy(r.end_date), " AND DATE <= %s", <<Val(r.end_date)>>)

get_cases_demographics_view_sig(r) ==
    LET q0 == Sig("SELECT * FROM CALIFORNIA_COVID_ANALYTICS.ANALYTICS.CA_CASES_DEMOGRAPHICS_VIEW WHERE 1=1", <<>>)
        q1 == AddIf(q0, Truthy(r.county), " AND AREA = %s", <<Val(r.county)>>)
        q2 == AddIf(q1, Truthy(r.date), DateEq, <<Val(r.date)>>)
    IN  AddIf(q2, Truthy(r.start_date) /\ Truthy(r.end_date), DateBetween,
              <<Val(r.start_date), Val(r.end_date)>>)

\* Variant of get_cases_demographics_view_ret without the `if not result` test.
get_cases_demographics_view_ret_unchecked(r, result) ==
    IF result /= <<>> /\ Truthy(r.county)
       /\ (Truthy(r.date)
           \/ (Truthy(r.start_date) /\ Truthy(r.end_date) /\ r.start_date = r.end_date))
    THEN Record(result[1])
    ELSE List(result)

get_cases_demographics_view_ret(r, result) ==
    IF result = <<>> THEN Error("No data found with given filters")
    ELSE IF Truthy(r.county)
            /\ (Truthy(r.date)
                \/ (Truthy(r.start_date) /\ Truthy(r.end_date) /\ r.start_date = r.end_date))
         THEN Record(result[1])
         ELSE List(result)

(***************************************************************************)
(* Endpoint 6: get_cases_summary_by_county(start_date, end_date, metric,   *)
(* limit).  metric is formatted into the query text by the f-strings.      *)
(***************************************************************************)
get_cases_summary_by_county_sig(r) ==
    LET metric == Val(r.metric)
        q0 == Sig("SELECT AREA, AVG(" \o metric \o ") AS avg_" \o metric
                  \o " FROM CALIFORNIA_COVID_ANALYTICS.ANALYTICS.CA_CASES_DEMOGRAPHICS_AGG WHERE 1=1", <<>>)
        q1 == AddIf(q0, Truthy(r.start_date), " AND DATE >= %s", <<Val(r.start_date)>>)
        q2 == AddIf(q1, Truthy(r.end_date), " AND DATE <= %s", <<Val(r.end_date)>>)
    IN  Sig(q2.query \o " GROUP BY AREA ORDER BY avg_" \o metric \o " DESC LIMIT %s",
            Append(q2.params, r.limit))

get_cases_summary_by_county_ret(r, result) == List(result)

(***************************************************************************)
(* Endpoint 7: get_trend(county, metric, interval)                         *)
(***************************************************************************)
valid_metrics ==
    [cases |-> "TOTAL_CASES", deaths |-> "TOTAL_DEATHS",
     cases_p_k |-> "CASES_PER_100K", deaths_p_k |-> "DEATHS_PER_100K"]

\* `if metric and metric not in valid_metrics`
get_trend_invalid(r) == Truthy(r.metric) /\ Val(r.metric) \notin DOMAIN valid_metrics

\* Variant of get_trend_error that answers with an empty list.
get_trend_error_empty(r) == List(<<>>)

get_trend_error(r) ==
    Error("Invalid metric '" \o Val(r.metric)
          \o "'. Choose from ['cases', 'deaths', 'cases_p_k', 'deaths_p_k']")

get_trend_sig(r) ==
    LET metric == Val(r.metric)
        select_clause ==
            IF Truthy(r.metric)
            THEN IF metric \in {"cases", "deaths"}
                 THEN "SUM(" \o valid_metrics[metric] \o ") AS total_" \o metric
                 ELSE "AVG(" \o valid_metrics[metric] \o ") AS " \o valid_metrics[metric]
            ELSE "SUM(TOTAL_CASES) AS TOTAL_CASES, SUM(TOTAL_DEATHS) AS TOTAL_DEATHS, "
                 \o "AVG(CASES_PER_100K) AS CASES_PER_100K, AVG(DEATHS_PER_100K) AS DEATHS_PER_100K"
        date_expr == IF r.interval = Some("month") THEN "DATE_TRUNC('month', DATE)" ELSE "DATE"
        q0 == Sig("SELECT " \o date_expr \o " AS period, " \o select_clause
                  \o " FROM CALIFORNIA_COVID_ANALYTICS.ANALYTICS.CA_TREND_MV WHERE 1=1", <<>>)
    IN  AddIf(q0, Truthy(r.county), " AND AREA = %s", <<Val(r.county)>>)

get_trend_ret(r, result) == List(result)

(***************************************************************************)
(* Dispatch on the endpoint.                                               *)
(***************************************************************************)
\* The endpoint returns an error before it builds any query.
Rejects(r) == r.op = "trend" /\ get_trend_invalid(r)

Rejection(r) == get_trend_error(r)

\* The (query, tuple(params)) the endpoint passes to fetch_query_cached.
BuildQuery(r) ==
    CASE r.op = "demographics" -> get_demographics_sig(r)
      [] r.op = "cases" -> get_cases_sig(r)
      [] r.op = "cases_demographics" -> get_cases_demographics_sig(r)
      [] r.op = "hospitals" -> get_hospitals_sig(r)
      [] r.op = "view" -> get_cases_demographics_view_sig(r)
      [] r.op = "summary_county" -> get_cases_summary_by_county_sig(r)
      [] r.op = "trend" -> get_trend_sig(r)

\* What the endpoint returns once fetch_query_cached has returned `result`.
Shape(r, result) ==
    CASE r.op = "demographics" -> get_demographics_ret(r, result)
      [] r.op = "cases" -> get_cases_ret(r, result)
      [] r.op = "cases_demographics" -> get_cases_demographics_ret(r, result)
      [] r.op = "hospitals" -> get_hospitals_ret(r, result)
      [] r.op = "view" -> get_cases_demographics_view_ret(r, result)
      [] r.op = "summary_county" -> get_cases_summary_by_county_ret(r, result)
      [] r.op = "trend" -> get_trend_ret(r, result)

(***************************************************************************)
(* The cache of @lru_cache(maxsize=512): entries ordered from the least    *)
(* recently used (index 1, the link after the root) to the most recently   *)
(* used (the last).  `at` is bookkeeping of the model, not of the code:    *)
(* the logical time of the entry's latest hit or insertion.                *)
(***************************************************************************)
Entry(k, v, now) == [key |-> k, value |-> v, at |-> now]

\* Index of the entry with key k, 0 when there is none.
CacheFind(c, k) ==
    LET S == {i \in 1..Len(c) : SigEq(c[i].key, k)}
    IN  IF S = {} THEN 0 ELSE CHOOSE i \in S : TRUE

\* Variant of LruHit that leaves the link where it is (first-in first-out).
LruHit_in_place(c, i, now) ==
    [j \in 1..Len(c) |-> IF j = i THEN Entry(c[i].key, c[i].value, now) ELSE c[j]]

\* A hit on entry i: the link is moved to the most recently used end.
LruHit(c, i, now) ==
    [j \in 1..Len(c) |->
        IF j < i THEN c[j]
        ELSE IF j < Len(c) THEN c[j + 1]
        ELSE Entry(c[i].key, c[i].value, now)]

\* Variant of LruStore that forgets to insert the result.
LruStore_forgets(c, k, v, now) == c

\* After the wrapped function returned v for key k: nothing when the key was
\* added meanwhile, a new link while the cache is not full, else the oldest
\* link is dropped and the new one added.
LruStore(c, k, v, now) ==
    IF CacheFind(c, k) > 0 THEN c
    ELSE IF Len(c) < maxsize THEN Append(c, Entry(k, v, now))
    ELSE Append(Tail(c), Entry(k, v, now))

(***************************************************************************)
(* The warehouse: an executed query returns some rows (a row is named by   *)
(* its number) or the connector raises.  Its content is outside the        *)
(* program, so each execution chooses among the possible outcomes.         *)
(***************************************************************************)
\* Rows i..j of the table, in order.
Segment(i, j) == [k \in 1..(j - i + 1) |-> i + k - 1]

ResultSets ==
    {<<>>} \cup {Segment(p[1], p[2]) :
                    p \in {q \in (1..MaxRows) \X (1..MaxRows) : q[1] <= q[2]}}

Errors == {"OperationalError", "ProgrammingError"}

\* The connections a call of fetch_query_cached leaves open when e ends it:
\* OperationalError comes from snowflake.connector.connect, before there is
\* a connection; ProgrammingError comes from cursor.execute, after conn and
\* cursor were opened, and the cursor.close() and conn.close() that follow
\* it are skipped (there is no try/finally).
LeftOpen(e) == IF e = "ProgrammingError" THEN 1 ELSE 0

(***************************************************************************)
(* State.                                                                  *)
(*   cache   the lru_cache of fetch_query_cached                           *)
(*   clock   number of cache hits and insertions so far (for Entry.at)     *)
(*   calls   requests received so far                                      *)
(*   pc      per thread: "idle", "computing" (inside the body of           *)
(*           fetch_query_cached, after a miss) or "done" (responded)       *)
(*   req     per thread: the request being served                          *)
(*   sig     per thread: the (query, params) passed to fetch_query_cached  *)
(*   lookup  per thread: "none" (cache not consulted), "hit" or "miss"     *)
(*   execs   per thread: warehouse executions made for the request         *)
(*   exc     per thread: the exception the connector raised inside         *)
(*           fetch_query_cached ("" when none)                             *)
(*   result  per thread: the endpoint's local `result`                     *)
(*   resp    per thread: what the endpoint returned                        *)
(*   connections  warehouse connections that calls of fetch_query_cached   *)
(*           opened and left open when they ended                          *)
(***************************************************************************)
VARIABLES cache, clock, calls, pc, req, sig, lookup, execs, exc, result, resp,
          connections

(***************************************************************************)
(* The state of one run of the analytics page (analytics.py, a Streamlit   *)
(* script that runs top to bottom when a button is pressed).               *)
(*   apc               position of the script: "idle", "fitting" (in       *)
(*                     model.fit()), "forecasting" (in model_fit.forecast),*)
(*                     "scaling" (in scaler.fit_transform), "clustering"   *)
(*                     (in kmeans.fit_predict) or "done"                   *)
(*   st                the elements the run has put on the page            *)
(*   effects           the requests and library fits the run has made      *)
(*   raised            the exception a library call of the run raised      *)
(*                     ("" when none)                                      *)
(*   selected          the widget values the run was started with          *)
(*   res               the response of the run's requests.get              *)
(*   df                the cleaned trend series                            *)
(*   forecast_df       the forecast points                                 *)
(*   cluster_data      the feature table after dropna()                    *)
(*   cluster_labels    the cluster index of every row of cluster_data      *)
(*   last_run          the inputs and labels of the previous clustering    *)
(***************************************************************************)
VARIABLES apc, st, effects, raised, selected, res, df, forecast_df, cluster_data,
          cluster_labels, last_run

page == <<apc, st, effects, raised, selected, res, df, forecast_df, cluster_data,
          cluster_labels, last_run>>

service == <<cache, clock, calls, pc, req, sig, lookup, execs, exc, result, resp,
             connections>>

\* No widget values: no button has been pressed.
NoSelection ==
    [selected_county |-> "", selected_metric |-> "", forecast_horizon |-> 0,
     selected_features |-> {}, num_clusters |-> 0]

\* res.ok, and res.json() as a list of rows with the given columns or as a
\* dict (the API's {"error": ...}).
Response(ok, kind, columns, rows) ==
    [ok |-> ok, kind |-> kind, columns |-> columns, rows |-> rows]

NoResponse == Response(FALSE, "list", {}, <<>>)

\* No clustering has completed yet.
NoRun == [selected |-> NoSelection, res |-> NoResponse, cluster_data |-> <<>>, labels |-> <<>>]

(***************************************************************************)
(* The state of the dashboard's comments (visualization.py).               *)
(*   annotations    the documents of the MongoDB collection                *)
(*                  covid_dashboard.annotations, in insertion order        *)
(*   utcnow         the time datetime.datetime.utcnow() gave the newest    *)
(*                  document                                               *)
(*   fired          the comment callback Dash has run and not yet answered:*)
(*                  its chart, its arguments, ctx.triggered_id and the     *)
(*                  exception that left it ("" when it returned)           *)
(*   status_msg     the status the callback returned                       *)
(*   comments_list  the comment list the callback returned                 *)
(***************************************************************************)
VARIABLES annotations, utcnow, fired, status_msg, comments_list

dashboard == <<annotations, utcnow, fired, status_msg, comments_list>>

\* No comment callback has run.
NotFired ==
    [chart |-> "", button |-> "", triggered_id |-> "", n_clicks |-> 0,
     comment_text |-> <<>>, filters |-> <<>>, exc |-> ""]

\* The dashboard on an empty collection.
DashInit ==
    /\ annotations = <<>>
    /\ utcnow = 0
    /\ fired = NotFired
    /\ status_msg = ""
    /\ comments_list = <<>>

vars == <<cache, clock, calls, pc, req, sig, lookup, execs, exc, result, resp,
          connections,
          apc, st, effects, raised, selected, res, df, forecast_df, cluster_data,
          cluster_labels, last_run,
          annotations, utcnow, fired, status_msg, comments_list>>

\* The page before any button is pressed.
PageInit ==
    /\ apc = "idle"
    /\ st = <<>>
    /\ effects = <<>>
    /\ raised = ""
    /\ selected = NoSelection
    /\ res = NoResponse
    /\ df = <<>>
    /\ forecast_df = <<>>
    /\ cluster_data = <<>>
    /\ cluster_labels = <<>>
    /\ last_run = NoRun

Init ==
    /\ PageInit
    /\ DashInit
    /\ cache = <<>>
    /\ clock = 0
    /\ calls = 0
    /\ pc = [t \in Threads |-> "idle"]
    /\ req = [t \in Threads |-> NoReq]
    /\ sig = [t \in Threads |-> NoSig]
    /\ lookup = [t \in Threads |-> "none"]
    /\ execs = [t \in Threads |-> 0]
    /\ exc = [t \in Threads |-> ""]
    /\ result = [t \in Threads |-> <<>>]
    /\ resp = [t \in Threads |-> NoResp]
    /\ connections = 0

(***************************************************************************)
(* A worker thread takes request r and runs the endpoint up to the return  *)
(* of the cache lookup: a validation error returns at once; a hit returns  *)
(* the cached rows and the endpoint shapes and returns them; a miss enters *)
(* the body of fetch_query_cached, which blocks on the warehouse.          *)
(***************************************************************************)
Handle(t, r) ==
    /\ pc[t] = "idle"
    /\ UNCHANGED page
    /\ UNCHANGED dashboard
    /\ UNCHANGED connections
    /\ calls < MaxCalls
    /\ calls' = calls + 1
    /\ req' = [req EXCEPT ![t] = r]
    /\ execs' = [execs EXCEPT ![t] = 0]
    /\ exc' = exc
    /\ IF Rejects(r)
       THEN /\ resp' = [resp EXCEPT ![t] = Rejection(r)]
            /\ pc' = [pc EXCEPT ![t] = "done"]
            /\ lookup' = [lookup EXCEPT ![t] = "none"]
            /\ UNCHANGED <<cache, clock, sig, result>>
       ELSE LET s == BuildQuery(r)
                i == CacheFind(cache, s)
            IN  /\ sig' = [sig EXCEPT ![t] = s]
                /\ IF i > 0
                   THEN /\ cache' = LruHit(cache, i, clock + 1)
                        /\ clock' = clock + 1
                        /\ lookup' = [lookup EXCEPT ![t] = "hit"]
                        /\ result' = [result EXCEPT ![t] = cache[i].value]
                        /\ resp' = [resp EXCEPT ![t] = Shape(r, cache[i].value)]
                        /\ pc' = [pc EXCEPT ![t] = "done"]
                   ELSE /\ lookup' = [lookup EXCEPT ![t] = "miss"]
                        /\ pc' = [pc EXCEPT ![t] = "computing"]
                        /\ UNCHANGED <<cache, clock, result, resp>>

(***************************************************************************)
(* The body of fetch_query_cached ends.  When the connector raised e the   *)
(* exception leaves fetch_query_cached and the endpoint, and lru_cache     *)
(* stores nothing.  Otherwise lru_cache stores the rows and the endpoint   *)
(* shapes and returns them.                                                *)
(***************************************************************************)
\* Neither fetch_query_cached nor any endpoint has a try/except: the
\* exception e leaves the endpoint as it was raised.
Propagate(e) == Raised(e)

\* Variant of FetchRaises that swallows the exception into a cached empty result.
FetchRaises_cached(t, e) ==
    /\ pc[t] = "computing"
    /\ UNCHANGED page
    /\ UNCHANGED dashboard
    /\ connections' = connections + LeftOpen(e)
    /\ execs' = [execs EXCEPT ![t] = execs[t] + 1]
    /\ exc' = [exc EXCEPT ![t] = e]
    /\ cache' = LruStore(cache, sig[t], <<>>, clock + 1)
    /\ clock' = clock + 1
    /\ resp' = [resp EXCEPT ![t] = Propagate(e)]
    /\ pc' = [pc EXCEPT ![t] = "done"]
    /\ UNCHANGED <<calls, req, sig, lookup, result>>

FetchRaises(t, e) ==
    /\ pc[t] = "computing"
    /\ UNCHANGED page
    /\ UNCHANGED dashboard
    /\ connections' = connections + LeftOpen(e)
    /\ execs' = [execs EXCEPT ![t] = execs[t] + 1]
    /\ exc' = [exc EXCEPT ![t] = e]
    /\ resp' = [resp EXCEPT ![t] = Propagate(e)]
    /\ pc' = [pc EXCEPT ![t] = "done"]
    /\ UNCHANGED <<cache, clock, calls, req, sig, lookup, result>>

FetchReturns(t, rows) ==
    /\ pc[t] = "computing"
    /\ UNCHANGED page
    /\ UNCHANGED dashboard
    /\ UNCHANGED connections
    /\ execs' = [execs EXCEPT ![t] = execs[t] + 1]
    /\ cache' = LruStore(cache, sig[t], rows, clock + 1)
    /\ clock' = IF CacheFind(cache, sig[t]) > 0 THEN clock ELSE clock + 1
    /\ result' = [result EXCEPT ![t] = rows]
    /\ resp' = [resp EXCEPT ![t] = Shape(req[t], rows)]
    /\ pc' = [pc EXCEPT ![t] = "done"]
    /\ UNCHANGED <<calls, req, sig, lookup, exc>>

\* The response has been sent; the thread is free for the next request.
Return(t) ==
    /\ pc[t] = "done"
    /\ UNCHANGED page
    /\ UNCHANGED dashboard
    /\ UNCHANGED connections
    /\ pc' = [pc EXCEPT ![t] = "idle"]
    /\ req' = [req EXCEPT ![t] = NoReq]
    /\ sig' = [sig EXCEPT ![t] = NoSig]
    /\ lookup' = [lookup EXCEPT ![t] = "none"]
    /\ execs' = [execs EXCEPT ![t] = 0]
    /\ exc' = [exc EXCEPT ![t] = ""]
    /\ result' = [result EXCEPT ![t] = <<>>]
    /\ resp' = [resp EXCEPT ![t] = NoResp]
    /\ UNCHANGED <<cache, clock, calls>>

(***************************************************************************)
(* Request inputs.                                                         *)
(***************************************************************************)
Counties == {None, Some(""), Some("Alameda"), Some("Los Angeles")}
Dates == {None, Some(""), Some("2022-12-30"), Some("2022-12-31")}
Categories == {None, Some(""), Some("Age Group"), Some("Gender")}
TrendMetrics == {None, Some(""), Some("cases"), Some("cases_p_k"), Some("bogus")}
Intervals == {Some("day"), Some("month"), Some("week")}
SummaryMetrics == {Some("cases_per_100k"), Some("deaths_per_100k"),
                   Some("population"), Some("1) FROM T; --")}
Limits == {5, 10}

AllRequests ==
    {Req("demographics", c, None, None, None, None, None, None, 0) : c \in Counties}
    \cup {Req("cases", c, d, None, None, None, None, None, 0) : c \in Counties, d \in Dates}
    \cup {Req("cases_demographics", None, d, None, None, g, None, None, 0) :
            d \in Dates, g \in Categories}
    \cup {Req("hospitals", c, d, None, None, None, None, None, 0) : c \in Counties, d \in Dates}
    \cup {Req("view", c, d, s, e, None, None, None, 0) :
            c \in Counties, d \in Dates, s \in Dates, e \in Dates}
    \cup {Req("summary_county", None, None, s, e, None, m, None, n) :
            s \in Dates, e \in Dates, m \in SummaryMetrics, n \in Limits}
    \cup {Req("trend", c, None, None, None, None, m, i, 0) :
            c \in Counties, m \in TrendMetrics, i \in Intervals}

\* The requests of the concurrent specification: two cacheable signatures
\* and one rejected request.
FewRequests ==
    {Req("demographics", c, None, None, None, None, None, None, 0) :
        c \in {None, Some("Alameda")}}
    \cup {Req("trend", None, None, None, None, None, Some("bogus"), Some("day"), 0)}

(***************************************************************************)
(* Spec: worker threads serve requests concurrently from a cold cache.     *)
(***************************************************************************)
Next ==
    \E t \in Threads :
        \/ \E r \in FewRequests : Handle(t, r)
        \/ \E e \in Errors : FetchRaises(t, e)
        \/ \E rows \in ResultSets : FetchReturns(t, rows)
        \/ Return(t)

Spec == Init /\ [][Next]_vars

(***************************************************************************)
(* SpecOne: one request, any endpoint with any arguments, on a cold cache. *)
(***************************************************************************)
NextOne ==
    \/ \E r \in AllRequests : Handle(1, r)
    \/ \E e \in Errors : FetchRaises(1, e)
    \/ \E rows \in ResultSets : FetchReturns(1, rows)

SpecOne == Init /\ [][NextOne]_vars

(***************************************************************************)
(* SpecTwice: a request, any endpoint with any arguments, on a cold cache, *)
(* and the same request once more on a second thread, during the first or  *)
(* after it.                                                               *)
(***************************************************************************)
NextTwice ==
    \/ \E r \in AllRequests : calls = 0 /\ Handle(1, r)
    \/ pc[1] /= "idle" /\ Handle(2, req[1])
    \/ \E t \in {1, 2} : \E e \in Errors : FetchRaises(t, e)
    \/ \E t \in {1, 2} : \E rows \in ResultSets : FetchReturns(t, rows)

SpecTwice == Init /\ [][NextTwice]_vars

(***************************************************************************)
(* SpecWarm: the same threads, started on a full cache: the state after    *)
(* maxsize successful requests /summary/county?limit=1 .. limit=maxsize,   *)
(* each a miss stored by LruStore.  The requests then hit the oldest       *)
(* entries or bring new signatures.                                        *)
(***************************************************************************)
WarmReq(n) ==
    Req("summary_county", None, None, None, None, None, Some("cases_per_100k"), None, n)

\* The cache after those n misses: LruStore appended one entry per request.
Warmed(n) == [i \in 1..n |-> Entry(BuildQuery(WarmReq(i)), <<1>>, i)]

WarmRequests == {WarmReq(1), WarmReq(maxsize + 1), WarmReq(maxsize + 2)}

\* The rows a query returns do not matter to the cache's order: two outcomes.
WarmResultSets == {<<>>, <<1>>}

InitWarm ==
    /\ PageInit
    /\ DashInit
    /\ cache = Warmed(maxsize)
    /\ clock = maxsize
    /\ calls = 0
    /\ pc = [t \in Threads |-> "idle"]
    /\ req = [t \in Threads |-> NoReq]
    /\ sig = [t \in Threads |-> NoSig]
    /\ lookup = [t \in Threads |-> "none"]
    /\ execs = [t \in Threads |-> 0]
    /\ exc = [t \in Threads |-> ""]
    /\ result = [t \in Threads |-> <<>>]
    /\ resp = [t \in Threads |-> NoResp]
    /\ connections = 0

NextWarm ==
    \E t \in Threads :
        \/ \E r \in WarmRequests : Handle(t, r)
        \/ \E e \in Errors : FetchRaises(t, e)
        \/ \E rows \in WarmResultSets : FetchReturns(t, rows)
        \/ Return(t)

SpecWarm == InitWarm /\ [][NextWarm]_vars

(***************************************************************************)
(* Properties.                                                             *)
(***************************************************************************)
InCache(c, k) == \E i \in 1..Len(c) : SigEq(c[i].key, k)

\* The rows the cache c holds for key k (k is in c).
CachedRows(c, k) == c[CHOOSE i \in 1..Len(c) : SigEq(c[i].key, k)].value

\* Thread t calls fetch_query_cached in this step.
CallStep(t) == pc[t] = "idle" /\ pc'[t] /= "idle" /\ lookup'[t] /= "none"

\* The body of fetch_query_cached returns rows to thread t in this step.
ComputedStep(t) == pc[t] = "computing" /\ pc'[t] = "done" /\ exc'[t] = ""

\* The body of fetch_query_cached raises in thread t in this step.
RaisedStep(t) == pc[t] = "computing" /\ pc'[t] = "done" /\ exc'[t] /= ""

(***************************************************************************)
(* C1.  Memoization: a call of the cached fetch whose signature is in the  *)
(* cache returns the rows stored for it and executes no warehouse query;   *)
(* a call whose signature is not in the cache executes the query exactly   *)
(* once, returns the rows it got, and leaves the signature in the cache,   *)
(* holding those rows unless a concurrent call stored the signature first. *)
(* Hence a call that follows a completed, unevicted call with an equal     *)
(* signature executes nothing.                                             *)
(***************************************************************************)
C1_Step(t) ==
    /\ CallStep(t) =>
          IF InCache(cache, sig'[t])
          THEN /\ pc'[t] = "done"
               /\ execs'[t] = 0
               /\ result'[t] = CachedRows(cache, sig'[t])
               /\ resp'[t] = Shape(req'[t], CachedRows(cache, sig'[t]))
          ELSE pc'[t] = "computing" /\ execs'[t] = 0
    /\ ComputedStep(t) =>
          /\ execs'[t] = 1
          /\ resp'[t] = Shape(req[t], result'[t])
          /\ InCache(cache', sig[t])
          /\ ~InCache(cache, sig[t]) => CachedRows(cache', sig[t]) = result'[t]
    /\ RaisedStep(t) => execs'[t] = 1

\* C1: every step of every thread obeys the memoization contract above.
C1_Memoization == [][\A t \in Threads : C1_Step(t)]_vars

\* A second call with an equal signature was answered from the cache.
C1_Witness ==
    \E t \in Threads :
        /\ pc[t] = "done" /\ lookup[t] = "hit" /\ execs[t] = 0
        /\ calls = 2 /\ result[t] /= <<>>

(***************************************************************************)
(* C2.  Single-flight: no two threads are inside the body of               *)
(* fetch_query_cached for the same signature at the same time.             *)
(***************************************************************************)
C2_SingleFlight ==
    \A t1, t2 \in Threads :
        (t1 /= t2 /\ pc[t1] = "computing" /\ pc[t2] = "computing")
            => ~SigEq(sig[t1], sig[t2])

(***************************************************************************)
(* C3.  Values reach the warehouse only as bound parameters: two requests  *)
(* to the same endpoint that set the same filters, and agree on every      *)
(* enumerated value (or both give a value outside the enumeration),        *)
(* produce the same query text.                                            *)
(***************************************************************************)
\* The enumerations of the request surface (spec 4.3): the metric names and
\* the grouping intervals.
MetricEnum(op) ==
    IF op = "trend" THEN DOMAIN valid_metrics
    ELSE {"cases", "deaths", "cases_per_100k", "deaths_per_100k"}

IntervalEnum == {"day", "month"}

\* x and y are the same choice from enumeration E, or both none of it.
SameChoice(x, y, E) == x = y \/ (Val(x) \notin E /\ Val(y) \notin E)

SameFilters(a, b) ==
    /\ a.op = b.op
    /\ Truthy(a.county) = Truthy(b.county)
    /\ Truthy(a.date) = Truthy(b.date)
    /\ Truthy(a.start_date) = Truthy(b.start_date)
    /\ Truthy(a.end_date) = Truthy(b.end_date)
    /\ Truthy(a.category) = Truthy(b.category)
    /\ SameChoice(a.metric, b.metric, MetricEnum(a.op))
    /\ SameChoice(a.interval, b.interval, IntervalEnum)

\* C3: same endpoint, same filters set, same enumerated choices: same query text.
C3_BoundParameters ==
    \A t \in Threads :
        lookup[t] /= "none" =>
            \A r \in AllRequests :
                (SameFilters(req[t], r) /\ ~Rejects(r))
                    => BuildQuery(r).query = sig[t].query

(***************************************************************************)
(* C4.  The cache never holds more than maxsize (512) entries, and an      *)
(* entry leaves the cache only when the cache is full and a new signature  *)
(* is stored, and then it is the entry whose latest hit or insertion is    *)
(* the oldest of all entries.                                              *)
(***************************************************************************)
\* Key k, at index i of cache, is still a key of cache'.  (Entries move down
\* by at most one place in a step, so those places are looked at first.)
StaysCached(i) ==
    \/ i <= Len(cache') /\ SigEq(cache'[i].key, cache[i].key)
    \/ i > 1 /\ i - 1 <= Len(cache') /\ SigEq(cache'[i - 1].key, cache[i].key)
    \/ InCache(cache', cache[i].key)

C4_EvictStep ==
    \A i \in 1..Len(cache) :
        ~StaysCached(i) =>
            /\ Len(cache) = maxsize
            /\ Len(cache') = maxsize
            /\ \E t \in Threads : ComputedStep(t) /\ InCache(cache', sig[t])
            /\ \A j \in 1..Len(cache) : cache[i].at <= cache[j].at

C5_Step(t) ==
    RaisedStep(t) =>
        /\ cache' = cache
        /\ resp'[t] = Raised(exc'[t])
        /\ exc'[t] \in Errors

\* C5: a raising warehouse call stores nothing and its exception reaches the caller.
C5_FailureNotCached == [][\A t \in Threads : C5_Step(t)]_vars

\* A call failed and left no entry: a call with the same signature is in the
\* body of fetch_query_cached, executing the query itself.
C5_Witness ==
    \E t1, t2 \in Threads :
        /\ t1 /= t2
        /\ pc[t1] = "done" /\ resp[t1] = Raised("OperationalError")
        /\ pc[t2] = "computing" /\ SigEq(sig[t1], sig[t2])
        /\ ~InCache(cache, sig[t1])

(***************************************************************************)
(* C6.  get_trend with a metric outside valid_metrics returns the invalid  *)
(* metric error at once: no cache lookup, no warehouse query, no cache     *)
(* insertion.  As claimed, for every metric given; as amended, for every   *)
(* non-empty metric given.                                                 *)
(***************************************************************************)
\* Thread t, serving a request, has answered InvalidFilter without touching
\* the cache or the warehouse.
FailedFast(t) ==
    /\ pc[t] = "done"
    /\ resp[t].kind = "error"
    /\ resp[t].msg = "Invalid metric '" \o Val(req[t].metric)
                     \o "'. Choose from ['cases', 'deaths', 'cases_p_k', 'deaths_p_k']"
    /\ lookup[t] = "none"
    /\ execs[t] = 0
    /\ cache = <<>>        \* the one request left the cold cache empty

C7_EnumeratedRejected ==
    \A t \in Threads :
        (\/ req[t].op = "trend" /\ Val(req[t].interval) \notin IntervalEnum
         \/ req[t].op = "summary_county"
                /\ Val(req[t].metric) \notin MetricEnum("summary_county"))
            => /\ pc[t] = "done"
               /\ resp[t].kind = "error"
               /\ lookup[t] = "none"
               /\ execs[t] = 0

(***************************************************************************)
(* C8.  get_demographics and get_cases_demographics_view answer with their *)
(* not-found error, never with a list or a record, when the query gave     *)
(* zero rows, whatever filters were supplied.                              *)
(***************************************************************************)
\* Thread t has responded, and fetch_query_cached had returned zero rows.
ZeroRows(t) ==
    pc[t] = "done" /\ lookup[t] /= "none" /\ exc[t] = "" /\ result[t] = <<>>

NotFound(v) ==
    /\ v.kind = "error"
    /\ v.msg \in {"No demographics found", "No data found with given filters"}

\* C8: zero rows from get_demographics or the view give the not-found error.
C8_NotFound ==
    \A t \in Threads :
        (ZeroRows(t) /\ req[t].op \in {"demographics", "view"}) => NotFound(resp[t])

C8_Witness ==
    \E t \in Threads :
        /\ ZeroRows(t)
        /\ req[t].op = "view"
        /\ req[t].county = Some("Alameda") /\ req[t].date = Some("2022-12-31")
        /\ req[t].start_date = None /\ req[t].end_date = None
        /\ resp[t] = Error("No data found with given filters")

(***************************************************************************)
(* C9.  No endpoint answers zero rows with a success: the response is an   *)
(* error.                                                                  *)
(***************************************************************************)
C9_NoEmptySuccess ==
    \A t \in Threads : ZeroRows(t) => resp[t].kind = "error"

(***************************************************************************)
(* C10.  get_cases_demographics_view never passes fetch_query_cached a     *)
(* query holding both the exact-date and the date-range predicate.         *)
(***************************************************************************)
\* text occurs in query.
Contains(query, text) ==
    \E i \in 1..(Len(query) - Len(text) + 1) :
        SubSeq(query, i, i + Len(text) - 1) = text

\* C10: the view query never holds both date predicates.
C10_DateOrRange ==
    \A t \in Threads :
        (req[t].op = "view" /\ lookup[t] /= "none")
            => ~(Contains(sig[t].query, DateEq) /\ Contains(sig[t].query, DateBetween))

(***************************************************************************)
(* analytics.py: what the page reads from the API.  A JSON cell is None    *)
(* (null) or Some(text), the text of the JSON value.                       *)
(***************************************************************************)
MaxPoints == 3
MaxDay == 2
MaxHorizon == 2

\* `res.json()` as a condition: an empty list is falsy, a dict with a key is not.
JsonTruthy(r) == r.kind = "dict" \/ r.rows /= <<>>

\* The elements the script puts on the page.
Element(kind, text, data) == [kind |-> kind, text |-> text, data |-> data]

Digits == "0123456789"

\* The value of the decimal digit c, -1 when c is not a digit.
DigitOf(c) ==
    IF \E i \in 1..10 : SubSeq(Digits, i, i) = c
    THEN (CHOOSE i \in 1..10 : SubSeq(Digits, i, i) = c) - 1
    ELSE -1

\* The number written as the decimal digits s, -1 when s is not all digits.
RECURSIVE ParseInt(_)
ParseInt(s) ==
    IF Len(s) = 0 THEN -1
    ELSE LET d == DigitOf(SubSeq(s, Len(s), Len(s)))
         IN  IF Len(s) = 1 THEN d
             ELSE LET h == ParseInt(SubSeq(s, 1, Len(s) - 1))
                  IN  IF d < 0 \/ h < 0 THEN -1 ELSE 10 * h + d

\* f"{n}" for a number below 10.
Str(n) == SubSeq(Digits, n + 1, n + 1)

\* The API's text of day d of January 2022 (d below 10).
PeriodText(d) == "2022-01-0" \o Str(d)

\* pd.to_datetime(errors='coerce') gives NaT, pd.to_numeric(errors='coerce') NaN.
NaT == 0
NaN == -1

\* pd.to_datetime(cell, errors='coerce'): a timestamp, here the day of
\* January 2022, or NaT for null and for text that is no date.
to_datetime(cell) ==
    IF cell = None THEN NaT
    ELSE LET s == Val(cell)
         IN  IF Len(s) = 10 /\ SubSeq(s, 1, 8) = "2022-01-"
             THEN LET d == ParseInt(SubSeq(s, 9, 10))
                  IN  IF d \in 1..31 THEN d ELSE NaT
             ELSE NaT

\* pd.to_numeric(cell, errors='coerce'): the number, or NaN for null and
\* for text that is no number.
to_numeric(cell) ==
    IF cell = None THEN NaN
    ELSE LET n == ParseInt(Val(cell)) IN IF n < 0 THEN NaN ELSE n

metrics == <<"cases", "deaths", "cases_p_k", "deaths_p_k">>

metric_map ==
    [cases |-> "TOTAL_CASES", deaths |-> "TOTAL_DEATHS",
     cases_p_k |-> "CASES_PER_100K", deaths_p_k |-> "DEATHS_PER_100K"]

\* Lines 74-77: rename PERIOD and the metric column, coerce both, drop the
\* rows with NaT or NaN, index by period.  The rows keep the order the API
\* returned them in, and rows with the same period are all kept.
CleanSeries(rows) ==
    SelectSeq([i \in 1..Len(rows) |->
                  [period |-> to_datetime(rows[i].PERIOD),
                   value |-> to_numeric(rows[i].value)]],
              LAMBDA x : x.period /= NaT /\ x.value /= NaN)

\* pd.date_range(start, periods=n): n consecutive days from start.
date_range(start, n) == [k \in 1..n |-> start + (k - 1)]

\* Lines 86-87: the forecast points, one per day after the last row of df.
Forecast(series, horizon, level) ==
    LET forecast_dates == date_range(series[Len(series)].period + 1, horizon)
    IN  [k \in 1..horizon |-> [period |-> forecast_dates[k], value |-> level]]

\* Lines 89-91: df and forecast_df, tagged and concatenated.
Combined(series, fdf) ==
    [i \in 1..Len(series) |-> [period |-> series[i].period, value |-> series[i].value,
                               type |-> "Observed"]]
    \o [i \in 1..Len(fdf) |-> [period |-> fdf[i].period, value |-> fdf[i].value,
                               type |-> "Forecast"]]

\* Inputs of the forecast page.
PageCounties == {"Los Angeles"}
ForecastMetrics == {"cases", "deaths_p_k"}
PeriodCells == {None, Some("n/a")} \union {Some(PeriodText(d)) : d \in 1..MaxDay}
ValueCells == {None, Some("10")}
TrendRows == {[PERIOD |-> p, value |-> v] : p \in PeriodCells, v \in ValueCells}
TrendSeries == UNION {[1..n -> TrendRows] : n \in 0..MaxPoints}

\* What GET /summary/trend can answer for metric m: a failure, or rows with
\* the metric's column, or rows without it.
TrendResponses(m) ==
    {Response(FALSE, "list", {}, <<>>)}
        \union {Response(TRUE, "list", {"PERIOD", metric_map[m]}, s) : s \in TrendSeries}
        \union {Response(TRUE, "list", {"PERIOD"}, <<[PERIOD |-> Some(PeriodText(1)), value |-> None]>>)}

\* What ARIMA.fit and forecast can raise, and the level of a forecast.
FitErrors == {"LinAlgError", "ValueError"}
ForecastLevels == {10, 11}

(***************************************************************************)
(* "Run Forecast" (lines 51-106).  RunForecast is the script up to the     *)
(* call of model.fit(); the fit and the forecast are library calls that    *)
(* return or raise.                                                        *)
(***************************************************************************)
RunForecast(county, m, horizon, r) ==
    /\ apc = "idle"
    /\ selected' = [NoSelection EXCEPT !.selected_county = county,
                                       !.selected_metric = m,
                                       !.forecast_horizon = horizon]
    /\ res' = r
    /\ effects' = <<"GET /summary/trend">>
    /\ raised' = ""
    /\ forecast_df' = <<>>
    /\ LET hello == Element("write", "Forecasting " \o m \o " for " \o county
                                     \o " for next " \o Str(horizon) \o " days...", <<>>)
           clean == CleanSeries(r.rows)
       IN  IF ~(r.ok /\ JsonTruthy(r))
           THEN /\ st' = <<hello, Element("warning",
                              "No trend data available for this county/metric.", <<>>)>>
                /\ apc' = "done"
                /\ df' = <<>>
           ELSE IF metric_map[m] \notin r.columns
           THEN /\ st' = <<hello, Element("warning",
                              "No data available for " \o m \o " in " \o county \o ".", <<>>)>>
                /\ apc' = "done"
                /\ df' = <<>>
           ELSE IF clean = <<>>
           THEN /\ st' = <<hello, Element("warning",
                              "No valid " \o m \o " data available for " \o county \o ".", <<>>)>>
                /\ apc' = "done"
                /\ df' = <<>>
           ELSE /\ st' = <<hello>>
                /\ apc' = "fitting"
                /\ df' = clean
    /\ UNCHANGED <<cluster_data, cluster_labels, last_run>>
    /\ UNCHANGED service
    /\ UNCHANGED dashboard

\* Variant of ForecastFailed that still draws the observed series with a
\* zero-filled forecast.
ForecastFailed_partial(e) ==
    /\ st' = Append(st, Element("chart", "",
                   Combined(df, Forecast(df, selected.forecast_horizon, 0))))
    /\ forecast_df' = Forecast(df, selected.forecast_horizon, 0)
    /\ apc' = "done"

\* `except Exception as e: st.error(f"Forecast error: {e}")`
ForecastFailed(e) ==
    /\ st' = Append(st, Element("error", "Forecast error: " \o e, <<>>))
    /\ forecast_df' = <<>>
    /\ apc' = "done"

\* model.fit() raises e.
FitRaises(e) ==
    /\ apc = "fitting"
    /\ effects' = Append(effects, "ARIMA.fit")
    /\ raised' = e
    /\ ForecastFailed(e)
    /\ UNCHANGED <<selected, res, df, cluster_data, cluster_labels, last_run>>
    /\ UNCHANGED service
    /\ UNCHANGED dashboard

\* model.fit() returns.
FitReturns ==
    /\ apc = "fitting"
    /\ effects' = Append(effects, "ARIMA.fit")
    /\ apc' = "forecasting"
    /\ UNCHANGED <<st, raised, selected, res, df, forecast_df, cluster_data,
                   cluster_labels, last_run>>
    /\ UNCHANGED service
    /\ UNCHANGED dashboard

\* model_fit.forecast(steps=forecast_horizon) raises e.
ForecastRaises(e) ==
    /\ apc = "forecasting"
    /\ effects' = Append(effects, "ARIMA.forecast")
    /\ raised' = e
    /\ ForecastFailed(e)
    /\ UNCHANGED <<selected, res, df, cluster_data, cluster_labels, last_run>>
    /\ UNCHANGED service
    /\ UNCHANGED dashboard

\* model_fit.forecast(steps=forecast_horizon) returns; the script builds
\* forecast_df and draws the chart.
ForecastReturns(level) ==
    /\ apc = "forecasting"
    /\ effects' = Append(effects, "ARIMA.forecast")
    /\ forecast_df' = Forecast(df, selected.forecast_horizon, level)
    /\ st' = Append(st, Element("chart", "",
                   Combined(df, Forecast(df, selected.forecast_horizon, level))))
    /\ apc' = "done"
    /\ UNCHANGED <<raised, selected, res, df, cluster_data, cluster_labels, last_run>>
    /\ UNCHANGED service
    /\ UNCHANGED dashboard

NextForecast ==
    \/ \E county \in PageCounties, m \in ForecastMetrics, horizon \in 1..MaxHorizon :
           \E r \in TrendResponses(m) : RunForecast(county, m, horizon, r)
    \/ \E e \in FitErrors : FitRaises(e)
    \/ FitReturns
    \/ \E e \in FitErrors : ForecastRaises(e)
    \/ \E level \in ForecastLevels : ForecastReturns(level)

SpecForecast == Init /\ [][NextForecast]_vars

(***************************************************************************)
(* "Run Clustering" (lines 137-170).  The page asks the API for the        *)
(* cases-demographics view without filters, keeps the selected feature     *)
(* columns, drops the rows with a null, standardizes and clusters.         *)
(* Nothing in this branch catches an exception: one raised by pandas or    *)
(* scikit-learn ends the script run, and Streamlit shows it.               *)
(***************************************************************************)
MaxEntities == 3
MaxK == 3

\* The features offered by the multiselect (lines 117-130).
feature_options ==
    <<"CASES_PER_100K", "DEATHS_PER_100K", "MALE_POPULATION_RATIO",
      "FEMALE_POPULATION_RATIO", "W_POPULATION_RATIO", "B_POPULATION_RATIO",
      "O_POPULATION_RATIO", "NH_POPULATION_RATIO", "HI_POPULATION_RATIO",
      "NA_POPULATION_RATIO", "AGE_0_19_POPULATION_RATIO", "AGE_20_49_POPULATION_RATIO",
      "AGE_50_64_POPULATION_RATIO", "AGE_65_PLUS_POPULATION_RATIO">>

\* KMeans(n_clusters=num_clusters, random_state=42)
random_state == 42

\* Variant of too_few_features that only rejects an empty selection.
too_few_features_empty(selected_features) == selected_features = {}

\* `if not selected_features or len(selected_features) < 2`
too_few_features(selected_features) ==
    selected_features = {} \/ Cardinality(selected_features) < 2

\* The JSON number of a cell, as res.json() parses it; None for null.
JsonNumber(cell) == IF cell = None THEN NaN ELSE ParseInt(Val(cell))

\* cluster_data[selected_features].dropna(): the rows, indexed by AREA,
\* without those that have a null in a selected feature.
FeatureTable(rows, selected_features) ==
    SelectSeq([i \in 1..Len(rows) |->
                  [AREA |-> rows[i].AREA,
                   x |-> [f \in selected_features |-> JsonNumber(rows[i].cells[f])]]],
              LAMBDA row : \A f \in selected_features : row.x[f] /= NaN)

RECURSIVE Sum(_, _)
Sum(f, S) ==
    IF S = {} THEN 0 ELSE LET i == CHOOSE j \in S : TRUE IN f[i] + Sum(f, S \ {i})

RECURSIVE Product(_, _)
Product(f, S) ==
    IF S = {} THEN 1 ELSE LET i == CHOOSE j \in S : TRUE IN f[i] * Product(f, S \ {i})

\* StandardScaler().fit_transform(table): every column minus its mean,
\* over its standard deviation (over 1 for a column of zero variance).
\* With n rows, column sum s and sum of squares q, the value of x is
\* (n x - s) / sqrt(n q - s^2): kept as that numerator, with the variance
\* term n q - s^2 of its column.
StandardScaler(table) ==
    LET n == Len(table)
        features == DOMAIN table[1].x
        s == [f \in features |-> Sum([i \in 1..n |-> table[i].x[f]], 1..n)]
        q == [f \in features |-> Sum([i \in 1..n |-> table[i].x[f] * table[i].x[f]], 1..n)]
    IN  [num |-> [i \in 1..n |-> [f \in features |-> n * table[i].x[f] - s[f]]],
         var |-> [f \in features |-> n * q[f] - s[f] * s[f]]]

\* The squared distance of rows i and c of the scaled table, times the
\* product of the variance terms of all columns that vary.
Distance(scaled, i, c) ==
    LET varying == {f \in DOMAIN scaled.var : scaled.var[f] > 0}
        d == [f \in varying |-> scaled.num[i][f] - scaled.num[c][f]]
    IN  Sum([f \in varying |->
                d[f] * d[f] * Product(scaled.var, varying \ {f})], varying)

\* Variant of RandomStream for random_state=None: the stream is seeded
\* from the operating system.
RandomStream_unseeded(seed, entropy) == entropy

\* np.random.RandomState(seed): the stream of a fit is the seed's, whatever
\* the operating system's entropy is.
RandomStream(seed, entropy) == seed

\* kmeans.fit_predict(scaled): a function of the scaled table, n_clusters
\* and the random stream.  Here the stream picks n_clusters rows as the
\* centres and every row gets the index of its nearest centre, the lowest
\* on a tie.
fit_predict(scaled, n_clusters, stream) ==
    LET n == Len(scaled.num)
        centre == [j \in 0..(n_clusters - 1) |-> ((stream + j) % n) + 1]
    IN  [i \in 1..n |->
            CHOOSE j \in 0..(n_clusters - 1) :
                /\ \A l \in 0..(n_clusters - 1) :
                       Distance(scaled, i, centre[j]) <= Distance(scaled, i, centre[l])
                /\ \A l \in 0..(j - 1) :
                       Distance(scaled, i, centre[l]) > Distance(scaled, i, centre[j])]

\* Inputs of the clustering page.
TableFeatures == {feature_options[1], feature_options[2]}
AreaNames == <<"Alameda", "Alpine", "Amador", "Butte">>
FeatureCells == {None, Some("1"), Some("2")}
ViewTables ==
    UNION {{[i \in 1..n |-> [AREA |-> AreaNames[i], cells |-> c[i]]] :
               c \in [1..n -> [TableFeatures -> FeatureCells]]} : n \in 1..MaxEntities}
Entropy == {0, 1}

\* What GET /cases-demographics-view can answer: a failure, the API's
\* {"error": "No data found"}, or the rows of the view.
ViewResponses ==
    {Response(FALSE, "list", {}, <<>>), Response(TRUE, "dict", {"error"}, <<>>)}
        \union {Response(TRUE, "list", {"AREA"} \union TableFeatures, rows) : rows \in ViewTables}

\* An exception nothing catches: the script run ends, Streamlit shows it.
Uncaught(e) ==
    /\ raised' = e
    /\ st' = Append(st, Element("exception", e, <<>>))
    /\ apc' = "done"

\* The script from the button to the call of scaler.fit_transform.
RunClustering(selected_features, num_clusters, r) ==
    /\ apc = "idle"
    /\ selected' = [NoSelection EXCEPT !.selected_features = selected_features,
                                       !.num_clusters = num_clusters]
    /\ cluster_labels' = <<>>
    /\ IF too_few_features(selected_features)
       THEN /\ st' = <<Element("warning",
                          "Please select at least two features for clustering.", <<>>)>>
            /\ effects' = <<>>
            /\ res' = NoResponse
            /\ raised' = ""
            /\ apc' = "done"
            /\ cluster_data' = <<>>
       ELSE /\ effects' = <<"GET /cases-demographics-view">>
            /\ res' = r
            /\ IF ~(r.ok /\ JsonTruthy(r))
               THEN /\ st' = <<Element("warning", "No data available for clustering.", <<>>)>>
                    /\ raised' = ""
                    /\ apc' = "done"
                    /\ cluster_data' = <<>>
               ELSE IF r.kind = "dict"
               THEN \* pd.DataFrame of a dict of scalars
                    /\ Uncaught("ValueError")
                    /\ cluster_data' = <<>>
               ELSE /\ st' = <<>>
                    /\ raised' = ""
                    /\ apc' = "scaling"
                    /\ cluster_data' = FeatureTable(r.rows, selected_features)
    /\ UNCHANGED <<df, forecast_df, last_run>>
    /\ UNCHANGED service
    /\ UNCHANGED dashboard

\* scaler.fit_transform(cluster_data) raises on a table without rows and
\* returns otherwise.
Scale ==
    /\ apc = "scaling"
    /\ effects' = Append(effects, "StandardScaler.fit_transform")
    /\ IF Len(cluster_data) = 0
       THEN Uncaught("ValueError")
       ELSE /\ apc' = "clustering"
            /\ UNCHANGED <<st, raised>>
    /\ UNCHANGED <<selected, res, df, forecast_df, cluster_data, cluster_labels, last_run>>
    /\ UNCHANGED service
    /\ UNCHANGED dashboard

\* kmeans.fit_predict(cluster_scaled) raises when there are fewer rows than
\* clusters; otherwise the labels become the Cluster column and the chart
\* is drawn.
Cluster(entropy) ==
    /\ apc = "clustering"
    /\ effects' = Append(effects, "KMeans.fit_predict")
    /\ IF Len(cluster_data) < selected.num_clusters
       THEN /\ Uncaught("ValueError")
            /\ UNCHANGED cluster_labels
       ELSE LET labels == fit_predict(StandardScaler(cluster_data), selected.num_clusters,
                                      RandomStream(random_state, entropy))
            IN  /\ cluster_labels' = labels
                /\ st' = Append(st, Element("chart", "County Clusters (" \o
                                Str(selected.num_clusters) \o " groups)",
                                [i \in 1..Len(labels) |->
                                    [AREA |-> cluster_data[i].AREA, Cluster |-> labels[i]]]))
                /\ apc' = "done"
                /\ UNCHANGED raised
    /\ UNCHANGED <<selected, res, df, forecast_df, cluster_data, last_run>>
    /\ UNCHANGED service
    /\ UNCHANGED dashboard

\* The next interaction reruns the script from the top; what the previous
\* run clustered is kept here for comparison.
Rerun ==
    /\ apc = "done"
    /\ last_run' = IF cluster_labels /= <<>>
                   THEN [selected |-> selected, res |-> res, cluster_data |-> cluster_data,
                         labels |-> cluster_labels]
                   ELSE last_run
    /\ apc' = "idle"
    /\ st' = <<>>
    /\ effects' = <<>>
    /\ raised' = ""
    /\ selected' = NoSelection
    /\ res' = NoResponse
    /\ df' = <<>>
    /\ forecast_df' = <<>>
    /\ cluster_data' = <<>>
    /\ cluster_labels' = <<>>
    /\ UNCHANGED service
    /\ UNCHANGED dashboard

\* The first run takes any selection and response; a run after one that
\* clustered repeats its selection on the same response.
NextClustering ==
    \/ \E selected_features \in SUBSET TableFeatures, num_clusters \in 2..MaxK :
           \E r \in ViewResponses :
               last_run = NoRun /\ RunClustering(selected_features, num_clusters, r)
    \/ /\ last_run /= NoRun
       /\ RunClustering(last_run.selected.selected_features,
                        last_run.selected.num_clusters, last_run.res)
    \/ Scale
    \/ \E entropy \in Entropy : Cluster(entropy)
    \/ Rerun

SpecClustering == Init /\ [][NextClustering]_vars

(***************************************************************************)
(* visualization.py: the comment callbacks of the dashboard.  Each chart   *)
(* has one callback with the submit button's n_clicks, the chart's filter  *)
(* widgets and the comment box as inputs; Dash runs it when any of them    *)
(* changes and on page load.                                               *)
(***************************************************************************)
MaxComments == 2

\* The fields a comment document can carry besides chart, comment and
\* timestamp.  A field a chart does not pass is missing from its documents;
\* a filter on None matches missing and null alike, so both are None here.
CommentFields == {"metric", "date", "category", "interval", "counties"}

\* str.strip(), for texts whose only whitespace is the space.
RECURSIVE strip(_)
strip(s) ==
    IF Len(s) = 0 THEN s
    ELSE IF SubSeq(s, 1, 1) = " " THEN strip(SubSeq(s, 2, Len(s)))
    ELSE IF SubSeq(s, Len(s), Len(s)) = " " THEN strip(SubSeq(s, 1, Len(s) - 1))
    ELSE s

\* Variant of is_blank without the strip(): only None and "" are refused.
is_blank_unstripped(comment_text) == ~Truthy(comment_text)

\* `if not comment_text or comment_text.strip() == ""`
is_blank(comment_text) == ~Truthy(comment_text) \/ strip(Val(comment_text)) = ""

\* The document insert_comment builds: chart, the stripped text, the time
\* and the keyword arguments.
Doc(chart, comment_text, timestamp, kwargs) ==
    [chart |-> chart, comment |-> strip(Val(comment_text)), timestamp |-> timestamp,
     fields |-> [k \in CommentFields |-> IF k \in DOMAIN kwargs THEN kwargs[k] ELSE None]]

\* annotations_col.find({"chart": chart, **filters})
find(col, chart, filters) ==
    SelectSeq(col, LAMBDA d : d.chart = chart
                              /\ \A k \in DOMAIN filters : d.fields[k] = filters[k])

\* .sort("timestamp", -1): newest first, documents of one timestamp in the
\* order found.
RECURSIVE sort_newest_first(_)
sort_newest_first(docs) ==
    IF docs = <<>> THEN <<>>
    ELSE LET i == CHOOSE j \in 1..Len(docs) :
                      /\ \A l \in 1..Len(docs) : docs[l].timestamp <= docs[j].timestamp
                      /\ \A l \in 1..(j - 1) : docs[l].timestamp < docs[j].timestamp
         IN  <<docs[i]>> \o sort_newest_first(SubSeq(docs, 1, i - 1)
                                               \o SubSeq(docs, i + 1, Len(docs)))

\* The list fetch_comments returns for the documents found: a placeholder
\* paragraph, or one element per comment with its text (after the note
\* sign the code puts before it) and its time.
Render(comments) ==
    IF comments = <<>>
    THEN <<[p |-> "No comments yet for this selection.", small |-> 0]>>
    ELSE [i \in 1..Len(comments) |->
             [p |-> comments[i].comment, small |-> comments[i].timestamp]]

fetch_comments(col, chart, filters) == Render(sort_newest_first(find(col, chart, filters)))

\* What insert_one and find can raise.
MongoErrors == {"ServerSelectionTimeoutError"}

\* The outcome of a store call: "" when it returns, else the exception.
Outcomes == {""} \union MongoErrors

\* insert_comment(chart, comment_text, **kwargs): the status it returns.
\* insert_exc is what insert_one raises; the try/except turns it into text.
insert_comment_status(comment_text, insert_exc) ==
    IF is_blank(comment_text) THEN "Please enter a comment before submitting."
    ELSE IF insert_exc /= "" THEN "Error saving comment: " \o insert_exc
    ELSE "Comment submitted successfully!"

\* The collection after insert_comment.
insert_comment(col, chart, comment_text, timestamp, kwargs, insert_exc) ==
    IF is_blank(comment_text) \/ insert_exc /= "" THEN col
    ELSE Append(col, Doc(chart, comment_text, timestamp, kwargs))

\* One run of a comment callback.  triggered_id is ctx.triggered_id (None
\* on page load).  An exception of find leaves fetch_comments and the
\* callback, which then returns nothing.
handle_comments(chart, button, triggered_id, n_clicks, comment_text, filters, insert_exc, fetch_exc) ==
    LET submit == triggered_id = Some(button) /\ n_clicks /= 0
        col == IF submit
               THEN insert_comment(annotations, chart, comment_text, utcnow + 1, filters,
                                   insert_exc)
               ELSE annotations
    IN  /\ fired = NotFired
        /\ Len(annotations) < MaxComments
        /\ annotations' = col
        /\ utcnow' = IF col /= annotations THEN utcnow + 1 ELSE utcnow
        /\ fired' = [chart |-> chart, button |-> button, triggered_id |-> triggered_id,
                     n_clicks |-> n_clicks, comment_text |-> comment_text,
                     filters |-> [k \in CommentFields |->
                                     IF k \in DOMAIN filters THEN filters[k] ELSE None],
                     exc |-> fetch_exc]
        /\ IF fetch_exc /= ""
           THEN UNCHANGED <<status_msg, comments_list>>
           ELSE /\ status_msg' = IF submit
                                 THEN insert_comment_status(comment_text, insert_exc)
                                 ELSE ""
                /\ comments_list' = fetch_comments(col, chart, filters)
        /\ UNCHANGED service
        /\ UNCHANGED page

handle_choropleth_comments(triggered_id, n_clicks, metric, selected_date, comment_text, insert_exc, fetch_exc) ==
    handle_comments("Choropleth Map", "choropleth-submit-btn", triggered_id, n_clicks,
                    comment_text, [metric |-> metric, date |-> selected_date],
                    insert_exc, fetch_exc)

handle_comparison_comments(triggered_id, n_clicks, metric, selected_date, comment_text, insert_exc, fetch_exc) ==
    handle_comments("Comparative Chart", "comparison-submit-btn", triggered_id, n_clicks,
                    comment_text, [metric |-> metric, date |-> selected_date],
                    insert_exc, fetch_exc)

handle_demographic_comments(triggered_id, n_clicks, metric, selected_date, category, comment_text, insert_exc, fetch_exc) ==
    handle_comments("Demographic Chart", "demographic-analysis-submit-btn", triggered_id,
                    n_clicks, comment_text,
                    [metric |-> metric, date |-> selected_date, category |-> category],
                    insert_exc, fetch_exc)

handle_trend_comments(triggered_id, n_clicks, metric, interval, counties, comment_text, insert_exc, fetch_exc) ==
    handle_comments("Trend Chart", "trend-submit-btn", triggered_id, n_clicks,
                    comment_text,
                    [metric |-> metric, interval |-> interval, counties |-> counties],
                    insert_exc, fetch_exc)

handle_scatter_comments(triggered_id, n_clicks, selected_date, comment_text, insert_exc, fetch_exc) ==
    handle_comments("Scatter Chart", "correlation-submit-btn", triggered_id, n_clicks,
                    comment_text, [date |-> selected_date], insert_exc, fetch_exc)

\* Dash has sent the callback's outputs (or its error) to the browser.
Respond ==
    /\ fired /= NotFired
    /\ fired' = NotFired
    /\ status_msg' = ""
    /\ comments_list' = <<>>
    /\ UNCHANGED <<annotations, utcnow>>
    /\ UNCHANGED service
    /\ UNCHANGED page

\* Inputs of the comment callbacks: ctx.triggered_id is None on page load,
\* or the id of one of the callback's inputs.
Triggers(inputs) == {None} \union {Some(id) : id \in inputs}
Clicks == {0, 1}
CommentTexts == {None, Some(""), Some("  "), Some(" ok ")}
CommentMetrics == {None, Some("cases")}
CommentDates == {Some("2022-12-30")}

NextComments ==
    \/ Respond
    \/ \E n_clicks \in Clicks, comment_text \in CommentTexts, metric \in CommentMetrics,
       selected_date \in CommentDates, insert_exc \in Outcomes, fetch_exc \in Outcomes :
        \/ \E triggered_id \in Triggers({"choropleth-submit-btn", "metric-dropdown",
                                         "date-picker-map", "choropleth-comment-input"}) :
               handle_choropleth_comments(triggered_id, n_clicks, metric, selected_date,
                                          comment_text, insert_exc, fetch_exc)
        \/ \E triggered_id \in Triggers({"comparison-submit-btn",
                                         "comparison-metric-dropdown",
                                         "date-picker-comparison",
                                         "comparison-comment-input"}) :
               handle_comparison_comments(triggered_id, n_clicks, metric, selected_date,
                                          comment_text, insert_exc, fetch_exc)
        \/ \E triggered_id \in Triggers({"demographic-analysis-submit-btn",
                                         "demographic-metric-dropdown",
                                         "date-picker-demographics",
                                         "demographic-category-dropdown",
                                         "demographic-analysis-comment-input"}) :
               handle_demographic_comments(triggered_id, n_clicks, metric, selected_date,
                                           Some("age"), comment_text, insert_exc,
                                           fetch_exc)
        \/ \E triggered_id \in Triggers({"trend-submit-btn", "trend-metric",
                                         "trend-interval", "trend-counties",
                                         "trend-comment-input"}) :
               handle_trend_comments(triggered_id, n_clicks, metric, Some("day"),
                                     Some("Alameda"), comment_text, insert_exc, fetch_exc)
        \/ \E triggered_id \in Triggers({"correlation-submit-btn", "scatter-date-picker",
                                         "correlation-comment-input"}) :
               handle_scatter_comments(triggered_id, n_clicks, selected_date,
                                       comment_text, insert_exc, fetch_exc)

SpecComments == Init /\ [][NextComments]_vars

(***************************************************************************)
(* C11.  An endpoint answers with a single record only when the result set *)
(* had exactly one row, so that no matching row is dropped; otherwise it   *)
(* answers with the full list.                                             *)
(***************************************************************************)
\* Thread t has responded with rows that fetch_query_cached returned.
Fetched(t) == pc[t] = "done" /\ lookup[t] /= "none" /\ exc[t] = ""

\* C11: a record stands for a one-row result; a list is the whole result.
C11_RecordIsWholeResult ==
    \A t \in Threads :
        (Fetched(t) /\ req[t].op \in {"demographics", "cases", "view"}) =>
            /\ resp[t].kind = "record" => (Len(result[t]) = 1 /\ resp[t].rows = result[t])
            /\ resp[t].kind = "list" => resp[t].rows = result[t]

(***************************************************************************)
(* C12.  Two requests with identical arguments give fetch_query_cached the *)
(* same (query, params) and share one cache entry: the cache never holds   *)
(* a second entry for them, and the request that comes after the first     *)
(* one's rows were stored is a hit.                                        *)
(***************************************************************************)
C12_SameSignature ==
    \A t1, t2 \in Threads :
        (req[t1] = req[t2] /\ lookup[t1] /= "none" /\ lookup[t2] /= "none")
            => (sig[t1].query = sig[t2].query /\ sig[t1].params = sig[t2].params)

C12_HitStep ==
    (CallStep(2) /\ Fetched(1)) => (lookup'[2] = "hit" /\ result'[2] = result[1])

ForecastShown == apc = "done" /\ forecast_df /= <<>>

ObservedPeriods == {df[i].period : i \in 1..Len(df)}

LastObserved == CHOOSE p \in ObservedPeriods : \A q \in ObservedPeriods : q <= p

\* C13: the forecast periods continue the observed series.
C13_ForecastPeriods ==
    ForecastShown =>
        /\ Len(forecast_df) = selected.forecast_horizon
        /\ forecast_df[1].period = LastObserved + 1
        /\ \A k \in 1..(Len(forecast_df) - 1) :
               forecast_df[k + 1].period = forecast_df[k].period + 1
        /\ \A k \in 1..Len(forecast_df) : forecast_df[k].period \notin ObservedPeriods

(***************************************************************************)
(* C14.  A series that, after the rows with a null or unparseable period   *)
(* or value are dropped, is empty or has no more points than the sum of    *)
(* the order terms is answered with a warning, and no fit is attempted.    *)
(***************************************************************************)
\* ARIMA(df['value'], order=(1,1,1))
order == <<1, 1, 1>>

\* The run is a forecast whose response passed the column check.
ForecastSeries ==
    /\ selected.selected_metric /= ""
    /\ res.ok /\ JsonTruthy(res)
    /\ metric_map[selected.selected_metric] \in res.columns

\* C14: too few points, no fit.
C14_NoFitOnLittleData ==
    (ForecastSeries /\ Len(CleanSeries(res.rows)) <= order[1] + order[2] + order[3]) =>
        /\ apc = "done"
        /\ st[Len(st)].kind = "warning"
        /\ \A i \in 1..Len(effects) : effects[i] /= "ARIMA.fit"

(***************************************************************************)
(* C15.  An exception raised by the fit or by the forecast is caught and   *)
(* reported as a "Forecast error" with its cause; the run then has no      *)
(* forecast points and draws no chart.                                     *)
(***************************************************************************)
\* C15: a raised fit or forecast ends in st.error, without points or chart.
C15_ForecastFailed ==
    (selected.selected_metric /= "" /\ raised /= "") =>
        /\ apc = "done"
        /\ st[Len(st)] = Element("error", "Forecast error: " \o raised, <<>>)
        /\ forecast_df = <<>>
        /\ \A i \in 1..Len(st) : st[i].kind /= "chart"

\* The forecast call raised after a fit that returned.
C15_Witness ==
    /\ apc = "done" /\ raised = "LinAlgError"
    /\ effects = <<"GET /summary/trend", "ARIMA.fit", "ARIMA.forecast">>
    /\ Len(df) = MaxPoints
    /\ st[Len(st)].kind = "error"

(***************************************************************************)
(* C16.  "Run Clustering" with fewer than two selected features ends with  *)
(* the warning to select at least two, without a request to the API and    *)
(* without standardizing or clustering anything.                           *)
(***************************************************************************)
\* The run is a clustering run.
ClusteringRun == selected.num_clusters /= 0

\* C16: fewer than two features, a warning and nothing else.
C16_TwoFeatures ==
    (ClusteringRun /\ Cardinality(selected.selected_features) < 2) =>
        /\ apc = "done"
        /\ st = <<Element("warning",
                     "Please select at least two features for clustering.", <<>>)>>
        /\ effects = <<>>
        /\ cluster_labels = <<>>

\* A run with exactly one selected feature.
C16_Witness ==
    /\ ClusteringRun /\ apc = "done"
    /\ Cardinality(selected.selected_features) = 1
    /\ st /= <<>> /\ st[1].kind = "warning"

(***************************************************************************)
(* C17.  When fewer than num_clusters rows remain after the rows with a    *)
(* null in a selected feature are dropped, the run ends with a warning     *)
(* about the data, and KMeans is never run.                                *)
(***************************************************************************)
\* The run got the rows of the view for at least two features.
ClusteringTable ==
    /\ ClusteringRun /\ ~too_few_features(selected.selected_features)
    /\ res.ok /\ res.kind = "list" /\ res.rows /= <<>>

\* C17: fewer rows than clusters, a warning and no KMeans.
C17_EnoughEntities ==
    (ClusteringTable
        /\ Len(FeatureTable(res.rows, selected.selected_features)) < selected.num_clusters) =>
        /\ apc /= "clustering"
        /\ \A i \in 1..Len(effects) : effects[i] /= "KMeans.fit_predict"
        /\ apc = "done" => st[Len(st)].kind = "warning"

(***************************************************************************)
(* C18.  An exception raised while standardizing or clustering is caught   *)
(* and reported as an error of the clustering; it never ends the script    *)
(* run uncaught, and the run shows no cluster assignments.                 *)
(***************************************************************************)
\* C18: a raised scaler or KMeans ends in a reported error, without labels.
C18_ClusteringFailed ==
    (ClusteringRun /\ raised /= "") =>
        /\ st[Len(st)].kind = "error"
        /\ \A i \in 1..Len(st) : st[i].kind /= "exception"
        /\ cluster_labels = <<>>

(***************************************************************************)
(* C19.  Clustering the same feature table with the same num_clusters      *)
(* again gives every row the same cluster index as before.                 *)
(***************************************************************************)
\* C19: same table, same k, same labels.
C19_Reproducible ==
    (cluster_labels /= <<>> /\ last_run /= NoRun
        /\ cluster_data = last_run.cluster_data
        /\ selected.num_clusters = last_run.selected.num_clusters) =>
        cluster_labels = last_run.labels

\* The second run has clustered the table of the first into two clusters
\* that are both in use.
C19_Witness ==
    /\ last_run /= NoRun /\ apc = "done"
    /\ cluster_data = last_run.cluster_data /\ Len(cluster_data) = MaxEntities
    /\ selected.num_clusters = last_run.selected.num_clusters
    /\ cluster_labels /= <<>>
    /\ \E i, j \in 1..Len(cluster_labels) : cluster_labels[i] /= cluster_labels[j]

(***************************************************************************)
(* C20.  A warehouse failure reaches the client of every endpoint as an    *)
(* error response with a cause (the endpoint's {"error": ...} shape), not  *)
(* as an exception escaping the endpoint, and nothing is cached for it.    *)
(***************************************************************************)
\* C20: a raised warehouse error is answered with a typed error, uncached.
C20_UpstreamUnavailable ==
    \A t \in Threads :
        (pc[t] = "done" /\ exc[t] /= "") =>
            /\ resp[t].kind = "error"
            /\ resp[t].msg /= ""

(***************************************************************************)
(* C21.  Whatever calls of fetch_query_cached have returned or failed, no  *)
(* warehouse connection or cursor that one of them opened is still open.   *)
(***************************************************************************)
\* C21: ended fetches leave no connection open.
C21_ConnectionsClosed == connections = 0

(***************************************************************************)
(* C22.  The series given to the model fit has strictly increasing periods *)
(* (chronological order, no period twice) and no row with a null or        *)
(* unparseable period or value, whatever rows the trend query returned.    *)
(***************************************************************************)
\* The script has called model.fit() on df.
FitAttempted ==
    apc \in {"fitting", "forecasting"}
        \/ \E i \in 1..Len(effects) : effects[i] = "ARIMA.fit"

\* C22: the fitted series is sorted, duplicate-free and clean.
C22_SortedSeries ==
    FitAttempted =>
        /\ \A i \in 1..(Len(df) - 1) : df[i].period < df[i + 1].period
        /\ \A i \in 1..Len(df) : df[i].period /= NaT /\ df[i].value /= NaN

(***************************************************************************)
(* C23.  Zero rows are cached like any result: a request made after the    *)
(* same request got zero rows from the warehouse is answered from the      *)
(* cache, without a warehouse execution, with the not-found error.         *)
(***************************************************************************)
C23_Step ==
    (CallStep(2) /\ Fetched(1) /\ lookup[1] = "miss" /\ result[1] = <<>>) =>
        /\ lookup'[2] = "hit" /\ pc'[2] = "done" /\ execs'[2] = 0
        /\ result'[2] = <<>>
        /\ resp'[2].kind = "error"

\* C23: a cached zero-row result answers later requests with not-found.
C23_ZeroRowsCached == [][C23_Step]_vars

(***************************************************************************)
(* C24.  get_cases_demographics_view applies a date range only when both   *)
(* start_date and end_date are given: with one of them alone the query     *)
(* and its parameters are those of the request with neither.               *)
(* get_cases_summary_by_county applies each bound on its own.              *)
(***************************************************************************)
\* Request r without its start_date and end_date.
Unbounded(r) == [r EXCEPT !.start_date = None, !.end_date = None]

C24_View(t) ==
    LET both == Truthy(req[t].start_date) /\ Truthy(req[t].end_date)
    IN  /\ Contains(sig[t].query, DateBetween) <=> both
        /\ both => SubSeq(sig[t].params, Len(sig[t].params) - 1, Len(sig[t].params))
                       = <<Val(req[t].start_date), Val(req[t].end_date)>>
        /\ ~both => SigEq(sig[t], BuildQuery(Unbounded(req[t])))

C24_Summary(t) ==
    LET from == Truthy(req[t].start_date)
        to == Truthy(req[t].end_date)
    IN  /\ Contains(sig[t].query, " AND DATE >= %s") <=> from
        /\ Contains(sig[t].query, " AND DATE <= %s") <=> to
        /\ Len(sig[t].params) = (IF from THEN 1 ELSE 0) + (IF to THEN 1 ELSE 0) + 1
        /\ from => sig[t].params[1] = Val(req[t].start_date)
        /\ to => sig[t].params[Len(sig[t].params) - 1] = Val(req[t].end_date)

\* C24: the view needs both bounds, the summary takes each.
C24_RangeBounds ==
    \A t \in Threads :
        lookup[t] /= "none" =>
            /\ req[t].op = "view" => C24_View(t)
            /\ req[t].op = "summary_county" => C24_Summary(t)

\* A view request with start_date alone was answered with the query of the
\* request without bounds.
C24_Witness ==
    /\ req[1].op = "view" /\ Fetched(1)
    /\ Truthy(req[1].start_date) /\ ~Truthy(req[1].end_date)
    /\ ~Contains(sig[1].query, "DATE")
    /\ sig[1].params = <<>>

(***************************************************************************)
(* C25.  A comment callback writes to the collection only when it was      *)
(* triggered by its submit button with a non-zero n_clicks and the text is *)
(* not blank after trimming; triggered by anything else, or with a blank   *)
(* text, it leaves the collection unchanged; and the list it returns is    *)
(* fetched after the insert, so that it holds the comment just inserted.   *)
(***************************************************************************)
\* Dash runs a comment callback in this step.
CallbackStep == fired = NotFired /\ fired' /= NotFired

\* The text is missing or made of spaces only.
Blank(text) ==
    text = None \/ \A i \in 1..Len(Val(text)) : SubSeq(Val(text), i, i) = " "

\* The callback f was triggered by its own submit button, clicked at least
\* once, with a text that is not blank.
Submitted(f) ==
    f.triggered_id = Some(f.button) /\ f.n_clicks /= 0 /\ ~Blank(f.comment_text)

C25_Step ==
    CallbackStep =>
        LET f == fired'
            n == Len(annotations)
            new == annotations'[n + 1]
        IN  /\ ~Submitted(f) => annotations' = annotations
            /\ annotations' /= annotations =>
                   /\ Submitted(f)
                   /\ Len(annotations') = n + 1 /\ SubSeq(annotations', 1, n) = annotations
                   /\ new.chart = f.chart /\ new.fields = f.filters
                   /\ new.comment /= "" /\ Contains(Val(f.comment_text), new.comment)
                   /\ SubSeq(new.comment, 1, 1) /= " "
                   /\ SubSeq(new.comment, Len(new.comment), Len(new.comment)) /= " "
                   /\ f.exc = "" =>
                          /\ comments_list'[1] = [p |-> new.comment, small |-> new.timestamp]
                          /\ status_msg' = "Comment submitted successfully!"

\* C25: only a non-blank submit writes, and the returned list shows it.
C25_CommentWritten == [][C25_Step]_vars

\* A second comment was submitted for the same selection: the list returned
\* holds it first and the earlier one after it.
C25_Witness ==
    /\ fired /= NotFired /\ Submitted(fired) /\ fired.exc = ""
    /\ fired.comment_text = Some(" ok ")
    /\ Len(annotations) = MaxComments
    /\ Len(comments_list) = MaxComments
    /\ comments_list[1] = [p |-> "ok", small |-> utcnow]

====
